---- MODULE Spec2Model ----
(***************************************************************************)
(* TempusVestis: a model of the repository's own code.                     *)
(*   tools/date_ops.py     get_current_date, calculate_future_date         *)
(*   tools/weather_api.py  _get_forecast_url, _get_summary,                *)
(*                         get_weather_forecast                            *)
(*   core/agent.py         run_agent                                       *)
(*   core/rag.py           WardrobeRAG.get_recommendations                 *)
(*   main.py               run_sequential_chain                            *)
(* The language model, the agent executor, the vector store, the HTTP      *)
(* library and the clock are the environment: every value they hand back   *)
(* is drawn from a bounded set.                                            *)
(*                                                                         *)
(* A Python value is a pair <<type, payload>>: x[1] is its type, x[2] its   *)
(* payload; the payload of a str is a sequence of one-character strings (a *)
(* long fixed text is one token in angle brackets), that of a dict a set   *)
(* of <<key, value>> pairs, that of a list a sequence.                     *)
(***************************************************************************)
EXTENDS Integers, Sequences, FiniteSets

VARIABLES
    pc,            \* position of the running call ("idle" before any call)
    calls,         \* history: the external calls made so far, in order
    ret,           \* the value the running call returned
    exc,           \* the exception the running call let propagate
    padYear,       \* platform: the C library's strftime zero-pads %Y
    now,           \* date_ops: the reading of datetime.now()
    days,          \* date_ops: calculate_future_date's argument
    latitude,      \* weather_api: get_weather_forecast's argument
    longitude,     \* weather_api: get_weather_forecast's argument
    summarize,     \* weather_api: get_weather_forecast's argument
    forecast_url,  \* weather_api: local of get_weather_forecast
    response,      \* weather_api: what the forecast response's json() gives
    query,         \* run_agent, run_sequential_chain: the argument
    invoked,       \* what the executor's invoke did: a result or an exception
    result,        \* run_agent, run_sequential_chain: local
    weather_data,  \* run_sequential_chain: local
    forecast_arg,  \* weather_api: _get_summary's argument
    api_key,       \* main: what os.getenv("OPENAI_API_KEY") gives
    argv,          \* main: sys.argv[1:]
    mode,          \* main: the modes entered so far, in order
    lines,         \* interactive_mode: the number of input() calls so far
    typed,         \* interactive_mode: what the latest input() did
    user_input,    \* interactive_mode: local, the stripped line
    stdout,        \* main: what the latest step printed, in order
    chained,       \* main: the queries the latest step gave run_sequential_chain
    content,       \* rag: load_wardrobe_knowledge's local, the text of the file
    iterations,    \* agent: the iterations the executor has done for the query
    ran            \* agent: the tool the executor ran last, "" before the first

\* the variables of _get_summary called by itself
summaryVars == <<forecast_arg>>

\* the variables of main and interactive_mode
mainVars == <<api_key, argv, mode, lines, typed, user_input, stdout, chained>>

\* the variables of load_wardrobe_knowledge
knowledgeVars == <<content>>

\* the variables of the executor's loop
executorVars == <<iterations, ran>>

vars == <<pc, calls, ret, exc, padYear, now, days, latitude, longitude,
          summarize, forecast_url, response, query, invoked, result,
          weather_data, summaryVars, mainVars, knowledgeVars, executorVars>>

-----------------------------------------------------------------------------
(* Bounds of the model. *)

\* calculate_future_date is called with every days in -MaxDays..MaxDays
MaxDays == 2
\* the executor's intermediate_steps hold at most MaxSteps steps
MaxSteps == 2
\* interactive_mode calls input() at most MaxLines times
MaxLines == 2
\* the knowledge file holds at most MaxBlocks blocks
MaxBlocks == 3

-----------------------------------------------------------------------------
(* Python values. *)

PyNone == <<"none", <<>>>>
PyStr(s) == <<"str", s>>
PyInt(n) == <<"int", n>>
PyBool(b) == <<"bool", b>>
PyList(s) == <<"list", s>>
PyDict(kv) == <<"dict", kv>>
\* an exception object: its class and its args[0]
PyExc(cls, arg) == <<"exception", <<cls, arg>>>>

\* bool(x)
Truthy(x) ==
    CASE x[1] = "none" -> FALSE
      [] x[1] = "str" -> Len(x[2]) > 0
      [] x[1] = "list" -> Len(x[2]) > 0
      [] x[1] = "dict" -> x[2] # {}
      [] x[1] = "int" -> x[2] # 0
      [] x[1] = "bool" -> x[2]
      [] OTHER -> TRUE

\* d.keys(), k in d, d[k] (for k in d), d.get(k, default)
Keys(d) == {p[1] : p \in d[2]}
HasKey(d, k) == d[1] = "dict" /\ k \in Keys(d)
Get(d, k) == (CHOOSE p \in d[2] : p[1] = k)[2]
GetOr(d, k, default) == IF k \in Keys(d) THEN Get(d, k) ELSE default
\* d[k] = x
SetItem(d, k, x) == PyDict({p \in d[2] : p[1] # k} \cup {<<k, x>>})

-----------------------------------------------------------------------------
(* Text: str.lower() and the substring test `needle in s`. *)

UpperCase == <<"A", "B", "C", "D", "E", "F", "G", "H", "I", "J", "K", "L", "M",
               "N", "O", "P", "Q", "R", "S", "T", "U", "V", "W", "X", "Y", "Z">>
LowerCase == <<"a", "b", "c", "d", "e", "f", "g", "h", "i", "j", "k", "l", "m",
               "n", "o", "p", "q", "r", "s", "t", "u", "v", "w", "x", "y", "z">>

LowerChar(c) ==
    IF \E i \in 1..26 : UpperCase[i] = c
    THEN LowerCase[CHOOSE i \in 1..26 : UpperCase[i] = c]
    ELSE c

Lower(s) == [i \in 1..Len(s) |-> LowerChar(s[i])]

Contains(s, needle) ==
    \E i \in 0..(Len(s) - Len(needle)) : SubSeq(s, i + 1, i + Len(needle)) = needle

\* str.strip(): the text without the whitespace at its two ends
Whitespace == {" ", "\t", "\n", "\r"}
RECURSIVE LStrip(_)
LStrip(s) == IF s # <<>> /\ Head(s) \in Whitespace THEN LStrip(Tail(s)) ELSE s
RECURSIVE RStrip(_)
RStrip(s) ==
    IF s # <<>> /\ s[Len(s)] \in Whitespace THEN RStrip(SubSeq(s, 1, Len(s) - 1)) ELSE s
Strip(s) == RStrip(LStrip(s))

\* str.isupper(): some cased character, and none of them lower case
IsUpper(s) ==
    /\ \E i \in 1..Len(s) : \E k \in 1..26 : UpperCase[k] = s[i]
    /\ \A i \in 1..Len(s) : \A k \in 1..26 : LowerCase[k] # s[i]

\* s.replace(c, '') for a character c
RemoveChar(s, c) == SelectSeq(s, LAMBDA x : x # c)

\* the pieces of s.split(sep) from where `piece` began, read from the left
RECURSIVE SplitFrom(_, _, _)
SplitFrom(s, sep, piece) ==
    IF Len(s) < Len(sep) THEN <<piece \o s>>
    ELSE IF SubSeq(s, 1, Len(sep)) = sep
    THEN <<piece>> \o SplitFrom(SubSeq(s, Len(sep) + 1, Len(s)), sep, <<>>)
    ELSE SplitFrom(Tail(s), sep, Append(piece, Head(s)))

\* s.split(sep)
Split(s, sep) == SplitFrom(s, sep, <<>>)

\* Join without the separator
RECURSIVE JoinNoSeparator(_, _)
JoinNoSeparator(sep, parts) ==
    IF parts = <<>> THEN <<>> ELSE Head(parts) \o JoinNoSeparator(sep, Tail(parts))

\* sep.join(parts)
RECURSIVE Join(_, _)
Join(sep, parts) ==
    IF parts = <<>> THEN <<>>
    ELSE IF Len(parts) = 1 THEN parts[1]
    ELSE parts[1] \o sep \o Join(sep, Tail(parts))

-----------------------------------------------------------------------------
(* Exceptions and the outcome of a step of a function. *)

MsgDateRange == <<"d", "a", "t", "e", " ", "v", "a", "l", "u", "e", " ", "o", "u",
                  "t", " ", "o", "f", " ", "r", "a", "n", "g", "e">>
MsgTimedeltaRange == <<"<days=>", "<must have magnitude <= 999999999>">>
MsgApiError == <<"A", "P", "I", " ", "E", "r", "r", "o", "r">>
MsgForecastApiError == <<"F", "o", "r", "e", "c", "a", "s", "t", " ">> \o MsgApiError
MsgInvalidJson == <<"I", "n", "v", "a", "l", "i", "d", " ", "J", "S", "O", "N">>
MsgNotSubscriptable == <<"<object is not subscriptable>">>

Properties == <<"p", "r", "o", "p", "e", "r", "t", "i", "e", "s">>
Forecast == <<"f", "o", "r", "e", "c", "a", "s", "t">>

\* how a function ends or goes on: it raised e, or it computed val
Raise(e) == [raised |-> TRUE, val |-> e]
Value(x) == [raised |-> FALSE, val |-> x]

NoCall == <<"", "idle">>

-----
(* datetime: the proleptic Gregorian calendar as the datetime module       *)
(* computes it (ordinals, day 1 = 0001-01-01).                             *)

MINYEAR == 1
MAXYEAR == 9999

DAYS_IN_MONTH == <<31, 28, 31, 30, 31, 30, 31, 31, 30, 31, 30, 31>>

IsLeap(year) == year % 4 = 0 /\ (year % 100 # 0 \/ year % 400 = 0)

DaysBeforeYear(year) ==
    LET y == year - 1 IN y * 365 + (y \div 4) - (y \div 100) + (y \div 400)

DaysInMonth(year, month) ==
    IF month = 2 /\ IsLeap(year) THEN 29 ELSE DAYS_IN_MONTH[month]

RECURSIVE DaysBeforeMonthTable(_)
DaysBeforeMonthTable(month) ==
    IF month = 1 THEN 0
    ELSE DaysBeforeMonthTable(month - 1) + DAYS_IN_MONTH[month - 1]

DaysBeforeMonth(year, month) ==
    DaysBeforeMonthTable(month) + (IF month > 2 /\ IsLeap(year) THEN 1 ELSE 0)

Ymd2Ord(year, month, day) ==
    DaysBeforeYear(year) + DaysBeforeMonth(year, month) + day

DI400Y == DaysBeforeYear(401)
DI100Y == DaysBeforeYear(101)
DI4Y == DaysBeforeYear(5)
MAXORDINAL == Ymd2Ord(MAXYEAR, 12, 31)

Ord2Ymd(ordinal) ==
    LET n0 == ordinal - 1
        n400 == n0 \div DI400Y
        r400 == n0 % DI400Y
        n100 == r400 \div DI100Y
        r100 == r400 % DI100Y
        n4 == r100 \div DI4Y
        r4 == r100 % DI4Y
        n1 == r4 \div 365
        n == r4 % 365
        year == n400 * 400 + 1 + n100 * 100 + n4 * 4 + n1
        leapyear == n1 = 3 /\ (n4 # 24 \/ n100 = 3)
        month0 == (n + 50) \div 32
        preceding0 == DaysBeforeMonthTable(month0)
                        + (IF month0 > 2 /\ leapyear THEN 1 ELSE 0)
        month == IF preceding0 > n THEN month0 - 1 ELSE month0
        preceding == IF preceding0 > n
                     THEN preceding0 - (DAYS_IN_MONTH[month]
                                          + (IF month = 2 /\ leapyear THEN 1 ELSE 0))
                     ELSE preceding0
    IN  IF n1 = 4 \/ n100 = 4
        THEN [year |-> year - 1, month |-> 12, day |-> 31]
        ELSE [year |-> year, month |-> month, day |-> n - preceding + 1]

\* a datetime: the date and the time of day
DateTime(y, mo, d, h, mi, s) ==
    [year |-> y, month |-> mo, day |-> d, hour |-> h, minute |-> mi, second |-> s]

SecondsOfDay(dt) == dt.hour * 3600 + dt.minute * 60 + dt.second

NoDateTime == DateTime(0, 0, 0, 0, 0, 0)

\* timedelta(days=n): at most 999999999 days either way
TimedeltaOverflows(n) == n > 999999999 \/ n < -999999999

\* AddDaysOrdinal with the time of day rounded to the nearest day
AddDaysOrdinalRounded(dt, n) ==
    Ymd2Ord(dt.year, dt.month, dt.day) + n + ((SecondsOfDay(dt) + 43200) \div 86400)

\* dt + timedelta(days=n): both sides are (days, seconds) pairs, the date's
\* ordinal and its time of day against n days; the sum is normalised and split
\* into an ordinal and a time of day again
AddDaysOrdinal(dt, n) ==
    Ymd2Ord(dt.year, dt.month, dt.day) + n + (SecondsOfDay(dt) \div 86400)

\* an ordinal outside 1..MAXORDINAL is an OverflowError
AddDaysOverflows(dt, n) ==
    ~(0 < AddDaysOrdinal(dt, n) /\ AddDaysOrdinal(dt, n) <= MAXORDINAL)

AddDays(dt, n) ==
    LET date == Ord2Ymd(AddDaysOrdinal(dt, n))
        secs == SecondsOfDay(dt) % 86400
    IN  DateTime(date.year, date.month, date.day,
                 secs \div 3600, (secs % 3600) \div 60, secs % 60)

-----------------------------------------------------------------------------
(* strftime("%Y-%m-%d") *)

Digit == <<"0", "1", "2", "3", "4", "5", "6", "7", "8", "9">>
DigitChar(d) == Digit[d + 1]

\* the decimal digits of n >= 0, without padding
RECURSIVE Decimal(_)
Decimal(n) ==
    IF n < 10 THEN <<DigitChar(n)>> ELSE Decimal(n \div 10) \o <<DigitChar(n % 10)>>

RECURSIVE ZeroPad(_, _)
ZeroPad(s, width) == IF Len(s) >= width THEN s ELSE ZeroPad(<<"0">> \o s, width)

\* %Y: zero-padded to four digits where the C library pads, bare digits elsewhere
FormatYear(year, pad) == IF pad THEN ZeroPad(Decimal(year), 4) ELSE Decimal(year)

Strftime(dt, pad) ==
    FormatYear(dt.year, pad) \o <<"-">> \o ZeroPad(Decimal(dt.month), 2)
        \o <<"-">> \o ZeroPad(Decimal(dt.day), 2)

-----------------------------------------------------------------------------
(* tools/date_ops.py *)

\* get_current_date(): datetime.now().strftime("%Y-%m-%d")
get_current_date(clock, pad) == PyStr(Strftime(clock, pad))

\* the default of calculate_future_date's days
DefaultDays == 0

\* BoundDays with a default of one day
BoundDaysOrTomorrow(arg) == IF arg[1] = "none" THEN DefaultDays + 1 ELSE arg[2]

\* the days a call binds: the argument, or the default when it is omitted
BoundDays(arg) == IF arg[1] = "none" THEN DefaultDays ELSE arg[2]

\* calculate_future_date(days): (datetime.now() + timedelta(days=days)).strftime(...)
calculate_future_date(clock, arg, pad) ==
    IF TimedeltaOverflows(BoundDays(arg))
    THEN Raise(PyExc("OverflowError", MsgTimedeltaRange))
    ELSE IF AddDaysOverflows(clock, BoundDays(arg))
    THEN Raise(PyExc("OverflowError", MsgDateRange))
    ELSE Value(PyStr(Strftime(AddDays(clock, BoundDays(arg)), pad)))

-----------------------------------------------------------------------------
(* tools/weather_api.py *)

\* the value that tools/constants.py gives the base URL is kept opaque: one token
NWS_BASE_URL == <<"<NWS_BASE_URL>">>

\* f"{x}" of a float given in tenths: 397 is 39.7, -105 is -10.5, 0 is 0.0
FormatFloat(tenths) ==
    LET a == IF tenths < 0 THEN -tenths ELSE tenths
    IN  (IF tenths < 0 THEN <<"-">> ELSE <<>>)
          \o Decimal(a \div 10) \o <<".">> \o Decimal(a % 10)

\* PointsUrl with the coordinates in the wrong order
PointsUrlSwapped(lat, lon) ==
    NWS_BASE_URL \o <<"/", "p", "o", "i", "n", "t", "s", "/">>
        \o FormatFloat(lon) \o <<",">> \o FormatFloat(lat)

\* f"{NWS_BASE_URL}/points/{latitude},{longitude}"
PointsUrl(lat, lon) ==
    NWS_BASE_URL \o <<"/", "p", "o", "i", "n", "t", "s", "/">>
        \o FormatFloat(lat) \o <<",">> \o FormatFloat(lon)

\* Subscript as x.get(key) would do it: None for a key the dict lacks
SubscriptOrNone(x, key) ==
    IF x[1] = "dict"
    THEN IF HasKey(x, key) THEN Value(Get(x, key)) ELSE Value(PyNone)
    ELSE Raise(PyExc("TypeError", MsgNotSubscriptable))

\* x[key] for a str key: the item of a dict, KeyError(key) when the dict lacks it,
\* TypeError for a value that is no dict
Subscript(x, key) ==
    IF x[1] = "dict"
    THEN IF HasKey(x, key) THEN Value(Get(x, key))
         ELSE Raise(PyExc("KeyError", key))
    ELSE Raise(PyExc("TypeError", MsgNotSubscriptable))

\* data["properties"]["forecast"]
ForecastUrlOf(data) ==
    LET props == Subscript(data, Properties)
    IN  IF props.raised THEN props ELSE Subscript(props.val, Forecast)

\* what requests.get(url) followed by .json() does: the get raises e, the json()
\* raises e, or json() gives the decoded body
GetRaises(e) == [kind |-> "get raises", got |-> e]
JsonRaises(e) == [kind |-> "json raises", got |-> e]
Json(body) == [kind |-> "json", got |-> body]

\* requests.get(url).json()
GetJson(http) == IF http.kind = "json" THEN Value(http.got) ELSE Raise(http.got)

\* _get_forecast_url, after requests.get(url) did `http`
_get_forecast_url(http) ==
    LET data == GetJson(http)
    IN  IF data.raised THEN data ELSE ForecastUrlOf(data.val)

\* _get_summary that does extract: it keeps the "properties" of the forecast
_get_summary_properties(forecast) ==
    IF HasKey(forecast, Properties) THEN Get(forecast, Properties) ELSE forecast

\* _get_summary written as `forecast or {}`: None comes back as an empty dict
_get_summary_or_empty(forecast) == IF Truthy(forecast) THEN forecast ELSE PyDict({})

\* _get_summary(forecast)
_get_summary(forecast) == forecast

\* get_weather_forecast with the failure of the forecast request swallowed
get_weather_forecast_swallow(http, summarise) ==
    LET body == GetJson(http)
    IN  IF body.raised THEN Value(PyNone)
        ELSE IF summarise THEN Value(_get_summary(body.val))
        ELSE Value(body.val)

\* get_weather_forecast from line 26 on, after requests.get(forecast_url) did `http`
get_weather_forecast(http, summarise) ==
    LET body == GetJson(http)
    IN  IF body.raised THEN body
        ELSE IF summarise THEN Value(_get_summary(body.val))
        ELSE Value(body.val)

\* one call of requests.get, as the history records it
HttpGet(url, http) == [op |-> "requests.get", url |-> url, did |-> http]

-----------------------------------------------------------------------------
(* Exceptions as the except clauses see them. *)

ExcClass(e) == e[2][1]
ExcArg(e) == e[2][2]

\* isinstance(e, KeyError), isinstance(e, Exception)
IsKeyError(e) == ExcClass(e) = "KeyError"
IsException(e) == ExcClass(e) \notin {"KeyboardInterrupt", "SystemExit"}

\* str(e): a KeyError shows the repr of its key, every other exception its message
StrOfExc(e) ==
    IF IsKeyError(e) THEN <<"'">> \o ExcArg(e) \o <<"'">> ELSE ExcArg(e)

-----------------------------------------------------------------------------
(* The dictionary keys and the words the code looks for. *)

Input == <<"i", "n", "p", "u", "t">>
Output == <<"o", "u", "t", "p", "u", "t">>
Error == <<"e", "r", "r", "o", "r">>
ErrorType == Error \o <<"_", "t", "y", "p", "e">>
IntermediateSteps == <<"i", "n", "t", "e", "r", "m", "e", "d", "i", "a", "t", "e",
                       "_", "s", "t", "e", "p", "s">>
HasErrors == <<"h", "a", "s", "_">> \o Error \o <<"s">>
Periods == <<"p", "e", "r", "i", "o", "d", "s">>
Exception == <<"e", "x", "c", "e", "p", "t", "i", "o", "n">>
Location == <<"l", "o", "c", "a", "t", "i", "o", "n">>
Coordinates == <<"c", "o", "o", "r", "d", "i", "n", "a", "t", "e", "s">>
Date == <<"d", "a", "t", "e">>
Time == <<"t", "i", "m", "e">>

-----------------------------------------------------------------------------
(* core/prompts.py and the fixed texts of core/agent.py, one token each *)

WEATHER_ERROR_PROMPT == <<"<WEATHER_ERROR_PROMPT>">>
CLARIFICATION_PROMPT == <<"<CLARIFICATION_PROMPT>">>
ErrorDetails == <<"<\n\nError details: >">>
AskForDetails == <<"<\n\nI need more specific information to help you. Could you provide more details about your destination and travel dates?>">>
AskForDates == <<"<\n\nI'm not sure about the dates you mentioned. Could you provide a specific date or number of days from now?>">>
GeneralError == <<"<I encountered an error while processing your request. Please try rephrasing with more specific details about your destination and travel dates.\n\nError: >">>

-----------------------------------------------------------------------------
(* core/agent.py: run_agent *)

\* one element of intermediate_steps: the pair (action, observation)
Step(tool, observation) == [action |-> [tool |-> tool], observation |-> observation]

\* ErrorResult without the "intermediate_steps" key
ErrorResultNoSteps(output, e, error_type) ==
    PyDict({<<Output, PyStr(output)>>,
            <<Error, PyStr(StrOfExc(e))>>,
            <<ErrorType, PyStr(<<error_type>>)>>})

\* the dictionary an except clause of run_agent returns
ErrorResult(output, e, error_type) ==
    PyDict({<<Output, PyStr(output)>>,
            <<Error, PyStr(StrOfExc(e))>>,
            <<ErrorType, PyStr(<<error_type>>)>>,
            <<IntermediateSteps, PyList(<<>>)>>})

\* except KeyError as e
OnKeyError(e) ==
    IF Contains(StrOfExc(e), Properties) \/ Contains(StrOfExc(e), Forecast)
    THEN ErrorResult(WEATHER_ERROR_PROMPT \o ErrorDetails \o StrOfExc(e), e,
                     "weather_api")
    ELSE ErrorResult(CLARIFICATION_PROMPT \o AskForDetails, e, "clarification")

\* OnException with the two tests in the other order: date before location
OnExceptionDateFirst(e) ==
    LET error_message == Lower(StrOfExc(e))
    IN  IF Contains(error_message, Date) \/ Contains(error_message, Time)
        THEN ErrorResult(CLARIFICATION_PROMPT \o AskForDates, e, "date")
        ELSE IF Contains(error_message, Location) \/ Contains(error_message, Coordinates)
        THEN ErrorResult(WEATHER_ERROR_PROMPT, e, "location")
        ELSE ErrorResult(GeneralError \o StrOfExc(e), e, "general")

\* except Exception as e
OnException(e) ==
    LET error_message == Lower(StrOfExc(e))
    IN  IF Contains(error_message, Location) \/ Contains(error_message, Coordinates)
        THEN ErrorResult(WEATHER_ERROR_PROMPT, e, "location")
        ELSE IF Contains(error_message, Date) \/ Contains(error_message, Time)
        THEN ErrorResult(CLARIFICATION_PROMPT \o AskForDates, e, "date")
        ELSE ErrorResult(GeneralError \o StrOfExc(e), e, "general")

\* the test on one observation: a str that holds "error" or "exception"
HasErrorPattern(observation) ==
    observation[1] = "str"
      /\ (Contains(Lower(observation[2]), Error)
            \/ Contains(Lower(observation[2]), Exception))

\* MarkErrors that always writes the flag: False when no observation matches
MarkErrorsEitherWay(r) ==
    IF HasKey(r, IntermediateSteps)
    THEN SetItem(r, HasErrors,
                 PyBool(\E i \in 1..Len(Get(r, IntermediateSteps)[2]) :
                           HasErrorPattern(Get(r, IntermediateSteps)[2][i].observation)))
    ELSE r

\* the loop over result["intermediate_steps"]
MarkErrors(r) ==
    IF HasKey(r, IntermediateSteps)
         /\ \E i \in 1..Len(Get(r, IntermediateSteps)[2]) :
                HasErrorPattern(Get(r, IntermediateSteps)[2][i].observation)
    THEN SetItem(r, HasErrors, PyBool(TRUE))
    ELSE r

\* run_agent from line 95 on, after agent.invoke did `inv`
run_agent(inv) ==
    IF ~inv.raised THEN Value(MarkErrors(inv.val))
    ELSE IF IsKeyError(inv.val) THEN Value(OnKeyError(inv.val))
    ELSE IF IsException(inv.val) THEN Value(OnException(inv.val))
    ELSE Raise(inv.val)

-----------------------------------------------------------------------------
(* core/agent.py: create_wardrobe_agent *)

\* lines 47-51: the tools the executor is given, by name
tools == {"get_current_date", "calculate_future_date", "get_weather_forecast"}

\* line 69: AgentExecutor(max_iterations=10)
max_iterations == 10

\* what the executor runs for a name that is none of its tools, and the step it
\* keeps for an answer it cannot parse (handle_parsing_errors=True, line 68)
InvalidTool == "invalid_tool"
ParsingError == "_Exception"
MsgStopped == <<"<Agent stopped due to max iterations.>">>

\* ShouldContinue with the limit one too far
ShouldContinueOnceMore(n) == n <= max_iterations

\* the executor's loop goes on while fewer than max_iterations are done
ShouldContinue(n) == n < max_iterations

\* the tool the executor runs when the model asks for `name`: tools=tools, line 66
ToolRun(name) == IF name \in tools THEN name ELSE InvalidTool

\* the result of the executor: the query and the final answer; of the list of
\* intermediate steps (line 70) the model keeps the length, `iterations`
ExecutorResult(q, output) ==
    PyDict({<<Input, PyStr(q)>>, <<Output, PyStr(output)>>})

-----------------------------------------------------------------------------
(* core/rag.py: load_wardrobe_knowledge *)

BlankLine == <<"\n", "\n">>
HeaderRule == <<"=", "=", "=", "=">>

\* Document(page_content=..., metadata={"section": ...})
Document(page_content, section) ==
    [page_content |-> page_content, metadata |-> [section |-> section]]

\* line 44: section.isupper() or '====' in section
IsHeader(section) == IsUpper(section) \/ Contains(section, HeaderRule)

\* line 55: section.replace('=', '').strip()
SectionName(section) == Strip(RemoveChar(section, "="))

\* Saved without the test of current_content: a document is added every time
SavedAlways(documents, current_section, current_content) ==
    Append(documents, Document(Join(BlankLine, current_content), current_section))

\* lines 46-52 and 60-65: the documents after current_content is saved, if any
Saved(documents, current_section, current_content) ==
    IF current_content # <<>>
    THEN Append(documents, Document(Join(BlankLine, current_content), current_section))
    ELSE documents

\* the loop of lines 41-57 over the sections left, and lines 60-67 after it
RECURSIVE LoadSections(_, _, _, _)
LoadSections(sections, documents, current_section, current_content) ==
    IF sections = <<>> THEN Saved(documents, current_section, current_content)
    ELSE IF Strip(Head(sections)) = <<>>
    THEN LoadSections(Tail(sections), documents, current_section, current_content)
    ELSE IF IsHeader(Head(sections))
    THEN LoadSections(Tail(sections),
                      Saved(documents, current_section, current_content),
                      SectionName(Head(sections)), <<>>)
    ELSE LoadSections(Tail(sections), documents, current_section,
                      Append(current_content, Head(sections)))

\* load_wardrobe_knowledge(file_path), where open(file_path).read() did `file`
load_wardrobe_knowledge(file) ==
    IF file.raised THEN file
    ELSE Value(PyList(LoadSections(Split(file.val[2], BlankLine), <<>>, <<>>, <<>>)))

-----------------------------------------------------------------------------
(* core/rag.py: WardrobeRAG.get_recommendations *)

Question == <<"q", "u", "e", "s", "t", "i", "o", "n">>
WeatherInfo == <<"w", "e", "a", "t", "h", "e", "r", "_", "i", "n", "f", "o">>
Name == <<"n", "a", "m", "e">>
Temperature == <<"t", "e", "m", "p", "e", "r", "a", "t", "u", "r", "e">>
TemperatureUnit == Temperature \o <<"U", "n", "i", "t">>
ShortForecast == <<"s", "h", "o", "r", "t", "F", "o", "r", "e", "c", "a", "s", "t">>
WindSpeed == <<"w", "i", "n", "d", "S", "p", "e", "e", "d">>
MsgNoGet == <<"<object has no attribute 'get'>">>

\* f"{x}" of a str or an int
Format(x) ==
    CASE x[1] = "str" -> x[2]
      [] x[1] = "int" -> (IF x[2] < 0 THEN <<"-">> \o Decimal(-x[2]) ELSE Decimal(x[2]))
      [] OTHER -> <<"<str(value)>">>

\* str(d) of a dict, its items in insertion order (the dicts that get here in the
\* model hold one item)
RECURSIVE ReprItems(_)
ReprItems(kv) ==
    IF kv = {} THEN <<>>
    ELSE LET p == CHOOSE q \in kv : TRUE
             item == <<"'">> \o p[1] \o <<"'", ":", " ">>
                        \o (IF p[2][1] = "str" THEN <<"'">> \o p[2][2] \o <<"'">>
                            ELSE Format(p[2]))
         IN  IF kv = {p} THEN item ELSE item \o <<",", " ">> \o ReprItems(kv \ {p})

StrOfDict(d) == <<"{">> \o ReprItems(d[2]) \o <<"}">>

\* the lines one period adds to the text
FormatPeriod(period) ==
    <<"\n">> \o Format(GetOr(period, Name, PyStr(<<"Unknown">>))) \o <<":", "\n">>
      \o <<"<  Temperature: >">> \o Format(GetOr(period, Temperature, PyStr(<<"N/A">>)))
      \o <<"<deg>">> \o Format(GetOr(period, TemperatureUnit, PyStr(<<"F">>))) \o <<"\n">>
      \o <<"<  Conditions: >">> \o Format(GetOr(period, ShortForecast, PyStr(<<"N/A">>)))
      \o <<"\n">>
      \o <<"<  Wind: >">> \o Format(GetOr(period, WindSpeed, PyStr(<<"N/A">>))) \o <<"\n">>

RECURSIVE FormatPeriods(_)
FormatPeriods(periods) ==
    IF periods = <<>> THEN <<>>
    ELSE FormatPeriod(Head(periods)) \o FormatPeriods(Tail(periods))

\* periods[:7]
FirstSeven(periods) == SubSeq(periods, 1, IF Len(periods) < 7 THEN Len(periods) ELSE 7)

\* _format_weather_info(weather_info), for a str or a dict
_format_weather_info(weather_info) ==
    IF weather_info[1] = "str" THEN Value(weather_info[2])
    ELSE IF HasKey(weather_info, Properties)
    THEN LET props == Get(weather_info, Properties)
         IN  IF props[1] # "dict" THEN Raise(PyExc("AttributeError", MsgNoGet))
             ELSE Value(<<"<Weather Forecast:\n>">>
                          \o FormatPeriods(FirstSeven(GetOr(props, Periods, PyList(<<>>))[2])))
    ELSE Value(<<"<Weather Forecast:\n>">> \o StrOfDict(weather_info))

\* the input_data get_recommendations hands to its chain
InputData(q, weather_text) ==
    PyDict({<<Question, q>>, <<WeatherInfo, PyStr(weather_text)>>})

\* get_recommendations(query, weather_info), where self.chain.invoke does `llm`
get_recommendations(q, weather_info, llm) ==
    LET weather_text == _format_weather_info(weather_info)
    IN  IF weather_text.raised THEN weather_text ELSE llm

-----------------------------------------------------------------------------
(* main.py: run_sequential_chain *)

CouldNotProcess == <<"<I couldn't process that request.>">>
AnErrorOccurred == <<"<An error occurred: >">>
PleaseRephrase == <<"<\n\nPlease try rephrasing your request with specific location and dates.>">>

\* how run_sequential_chain goes on: it returns x, lets e propagate, or enters
\* the RAG stage with weather_data
Return(x) == [next |-> "return", val |-> x]
Propagate(e) == [next |-> "raise", val |-> e]
EnterRag(data) == [next |-> "rag", val |-> data]

\* Caught without the except clause: every exception propagates
CaughtNothing(e) == Propagate(e)

\* except Exception as e: the returned text; what is no Exception propagates
Caught(e) ==
    IF IsException(e)
    THEN Return(PyStr(AnErrorOccurred \o StrOfExc(e) \o PleaseRephrase))
    ELSE Propagate(e)

\* WeatherDataOf without the break of line 89: the last forecast step wins
RECURSIVE WeatherDataOfLast(_)
WeatherDataOfLast(steps) ==
    IF steps = <<>> THEN PyNone
    ELSE IF steps[Len(steps)].action.tool = "get_weather_forecast"
    THEN steps[Len(steps)].observation
    ELSE WeatherDataOfLast(SubSeq(steps, 1, Len(steps) - 1))

\* WeatherDataOf that passes over empty observations: the first forecast step
\* with a non-empty observation wins
RECURSIVE WeatherDataOfFirstUsable(_)
WeatherDataOfFirstUsable(steps) ==
    IF steps = <<>> THEN PyNone
    ELSE IF Head(steps).action.tool = "get_weather_forecast"
              /\ Truthy(Head(steps).observation)
    THEN Head(steps).observation
    ELSE WeatherDataOfFirstUsable(Tail(steps))

\* the loop of lines 85-89: the observation of the first get_weather_forecast step
RECURSIVE WeatherDataOf(_)
WeatherDataOf(steps) ==
    IF steps = <<>> THEN PyNone
    ELSE IF Head(steps).action.tool = "get_weather_forecast"
    THEN Head(steps).observation
    ELSE WeatherDataOf(Tail(steps))

\* result.get("intermediate_steps", [])
StepsOf(r) == GetOr(r, IntermediateSteps, PyList(<<>>))[2]

\* AgentStage with `weather_data is not None` for the truth test of line 92
AgentStageNotNone(inv) ==
    IF inv.raised THEN Caught(inv.val)
    ELSE IF HasKey(inv.val, Error)
    THEN IF HasKey(inv.val, Output) THEN Return(Get(inv.val, Output))
         ELSE Caught(PyExc("KeyError", Output))
    ELSE IF WeatherDataOf(StepsOf(inv.val))[1] # "none"
    THEN EnterRag(WeatherDataOf(StepsOf(inv.val)))
    ELSE Return(GetOr(inv.val, Output, PyStr(CouldNotProcess)))

\* AgentStage with the test of line 81 after the steps: a forecast observation
\* goes to the RAG stage although the result holds "error"
AgentStageStepsFirst(inv) ==
    IF inv.raised THEN Caught(inv.val)
    ELSE IF Truthy(WeatherDataOf(StepsOf(inv.val)))
    THEN EnterRag(WeatherDataOf(StepsOf(inv.val)))
    ELSE IF HasKey(inv.val, Error)
    THEN IF HasKey(inv.val, Output) THEN Return(Get(inv.val, Output))
         ELSE Caught(PyExc("KeyError", Output))
    ELSE Return(GetOr(inv.val, Output, PyStr(CouldNotProcess)))

\* lines 78-104, after agent.get_detailed_response(query) did `inv`
AgentStage(inv) ==
    IF inv.raised THEN Caught(inv.val)
    ELSE IF HasKey(inv.val, Error)
    THEN IF HasKey(inv.val, Output) THEN Return(Get(inv.val, Output))
         ELSE Caught(PyExc("KeyError", Output))
    ELSE IF Truthy(WeatherDataOf(StepsOf(inv.val)))
    THEN EnterRag(WeatherDataOf(StepsOf(inv.val)))
    ELSE Return(GetOr(inv.val, Output, PyStr(CouldNotProcess)))

\* line 97, after WardrobeRAG() did `built`
RagConstructed(built) == IF built.raised THEN Caught(built.val) ELSE EnterRag(PyNone)

\* lines 99-101, after rag.get_recommendations(query, weather_data) did `out`
RagStage(out) == IF out.raised THEN Caught(out.val) ELSE Return(out.val)

\* one external call, as the history records it
Call(op, arg, did) == [op |-> op, arg |-> arg, did |-> did]

\* run_sequential_chain(q) as a whole, where WardrobeAgent() did `built`, the
\* agent's invoke did `inv`, WardrobeRAG() did `ragBuilt` and the chain's invoke
\* did `llm`
run_sequential_chain(q, built, inv, ragBuilt, llm) ==
    IF built.raised THEN built
    ELSE LET agent == AgentStage(inv)
         IN  IF agent.next = "return" THEN Value(agent.val)
             ELSE IF agent.next = "raise" THEN Raise(agent.val)
             ELSE LET rag == RagConstructed(ragBuilt)
                      out == RagStage(get_recommendations(PyStr(q), agent.val, llm))
                  IN  IF rag.next = "return" THEN Value(rag.val)
                      ELSE IF rag.next = "raise" THEN Raise(rag.val)
                      ELSE IF out.next = "raise" THEN Raise(out.val)
                      ELSE Value(out.val)

-----------------------------------------------------------------------------
(* main.py: main, single_query_mode, interactive_mode *)

Banner == <<"<banner>">>
HelpText == <<"<help_text>">>
MsgNoKey == <<"<ERROR: OPENAI_API_KEY not found in environment variables.>">>
MsgCreateEnv == <<"<Please create a .env file with your OpenAI API key.>">>
QueryLabel == <<"<\nQuery: >">>
TempusVestisLabel == <<"<\nTempusVestis:>">>
Separator == <<"<\n============================================================>">>
Prompt == <<"<\nYou: >">>
Goodbye == <<"<\nThanks for using TempusVestis! Safe travels!>">>
GoodbyeInterrupted == <<"\n">> \o Goodbye
ErrorLabel == <<"<\nError: >">>
PleaseTryAgain == <<"<Please try again.>">>

Quit == <<"q", "u", "i", "t">>
Exit == <<"e", "x", "i", "t">>
Help == <<"h", "e", "l", "p">>

\* how a step of main or interactive_mode ends: what it printed, the queries it
\* gave run_sequential_chain, and whether the loop goes on ("loop"), main
\* returns ("return") or an exception leaves main ("raise", with the exception)
Outcome(printed, queries, next, e) ==
    [printed |-> printed, queries |-> queries, next |-> next, exc |-> e]

\* KeyMissing that only sees an unset variable: an empty value passes
KeyMissingWhenUnset(key) == key = PyNone

\* line 159: not os.getenv("OPENAI_API_KEY")
KeyMissing(key) == ~Truthy(key)

\* line 165: len(sys.argv) > 1, args being sys.argv[1:]
HasArguments(args) == Len(args) > 0

\* line 166: " ".join(sys.argv[1:])
QueryOfArguments(args) == Join(<<" ">>, args)

\* lines 160-162: the two messages and sys.exit(1)
ExitWithoutKey ==
    Outcome(<<MsgNoKey, MsgCreateEnv>>, <<>>, "raise", PyExc("SystemExit", <<"1">>))

\* single_query_mode(q), where run_sequential_chain(q) did `chain`
single_query_mode(q, chain) ==
    IF chain.raised
    THEN Outcome(<<Banner, QueryLabel \o q, TempusVestisLabel>>, <<PyStr(q)>>,
               "raise", chain.val)
    ELSE Outcome(<<Banner, QueryLabel \o q, TempusVestisLabel, <<"\n">> \o chain.val[2]>>,
               <<PyStr(q)>>, "return", PyNone)

\* lines 112-113 of interactive_mode: the banner and the help text
EnterInteractive == Outcome(<<Banner, HelpText>>, <<>>, "loop", PyNone)

\* lines 138-143: the except clauses of the loop
LoopCaught(printed, queries, e) ==
    IF ExcClass(e) = "KeyboardInterrupt"
    THEN Outcome(printed \o <<GoodbyeInterrupted>>, queries, "return", PyNone)
    ELSE IF IsException(e)
    THEN Outcome(printed \o <<ErrorLabel \o StrOfExc(e), PleaseTryAgain>>, queries,
               "loop", PyNone)
    ELSE Outcome(printed, queries, "raise", e)

\* IsQuit that compares the text as typed: "QUIT" is no command
IsQuitAsTyped(text) == text \in {Quit, Exit}

\* line 125: user_input.lower() in ['quit', 'exit']
IsQuit(text) == Lower(text) \in {Quit, Exit}

\* line 129: user_input.lower() == 'help'
IsHelp(text) == Lower(text) = Help

\* line 122-131: the line is a query, none of the commands and not empty
IsQuery(text) == text # <<>> /\ ~IsQuit(text) /\ ~IsHelp(text)

\* one pass of the loop of interactive_mode, lines 116-143, where input() did
\* `in` and, for a query, run_sequential_chain did `chain`
interactive_pass(in, chain) ==
    LET before == <<Separator, Prompt>>
        text == Strip(in.val[2])
    IN  IF in.raised THEN LoopCaught(before, <<>>, in.val)
        ELSE IF text = <<>> THEN Outcome(before, <<>>, "loop", PyNone)
        ELSE IF IsQuit(text) THEN Outcome(before \o <<Goodbye>>, <<>>, "return", PyNone)
        ELSE IF IsHelp(text) THEN Outcome(before \o <<HelpText>>, <<>>, "loop", PyNone)
        ELSE IF chain.raised
        THEN LoopCaught(before \o <<TempusVestisLabel>>, <<PyStr(text)>>, chain.val)
        ELSE Outcome(before \o <<TempusVestisLabel, <<"\n">> \o chain.val[2]>>,
                   <<PyStr(text)>>, "loop", PyNone)

-----------------------------------------------------------------------------
(* The environment: the bounded sets the inputs are drawn from. *)

\* the clock: dates at month ends, year ends and leap days, and three dates a
\* whole number of 400-year cycles away from 0001-01-01, 1000-01-01 and
\* 9999-12-31; each at three times of the day
ClockDates ==
    {<<2025, 10, 9>>, <<2025, 1, 31>>, <<2025, 12, 31>>, <<2025, 1, 1>>,
     <<2024, 2, 28>>, <<2024, 2, 29>>, <<2024, 3, 1>>, <<2023, 2, 28>>,
     <<2100, 2, 28>>, <<2000, 2, 29>>,
     <<2001, 1, 1>>, <<2200, 1, 1>>, <<2399, 12, 31>>}
ClockTimes == {<<0, 0, 0>>, <<12, 30, 45>>, <<23, 59, 59>>}
Clocks ==
    {DateTime(d[1], d[2], d[3], t[1], t[2], t[3]) : d \in ClockDates, t \in ClockTimes}

\* the days argument: omitted, small, a month, a year, a leap year, 3, 5 and 19
\* cycles of 400 years (146097 days each) and one day more, more than a
\* timedelta holds
DaysArgs ==
    {PyNone} \cup {PyInt(n) : n \in (-MaxDays..MaxDays)
                                \cup {30, -30, 365, -365, 366, -366,
                                      -438291, -438292, -730485, -730486,
                                      2775843, 2775844, 1000000000}}

\* coordinates in tenths of a degree
Latitudes == {397, 0, -105}
Longitudes == {-970, 0}

UrlTop == <<"<https://api.weather.gov/gridpoints/TOP/31,80/forecast>">>
UrlLox == <<"<https://api.weather.gov/gridpoints/LOX/123,456/forecast>">>

\* what the points request can do
PointsBodies ==
    {PyDict({<<Properties, PyDict({<<Forecast, PyStr(UrlTop)>>})>>}),
     PyDict({<<Properties, PyDict({<<Forecast, PyStr(UrlLox)>>,
                                   <<<<"g", "r", "i", "d", "I", "d">>, PyStr(<<"LOX">>)>>})>>}),
     PyDict({<<<<"i", "n", "v", "a", "l", "i", "d">>, PyStr(<<"response">>)>>}),
     PyDict({}),
     PyDict({<<Properties, PyDict({})>>}),
     PyDict({<<Properties, PyDict({<<<<"g", "r", "i", "d", "I", "d">>, PyStr(<<"TOP">>)>>})>>}),
     PyDict({<<Properties, PyStr(<<"text">>)>>}),
     PyNone}
PointsOutcomes ==
    {GetRaises(PyExc("Exception", MsgApiError)),
     JsonRaises(PyExc("ValueError", MsgInvalidJson))} \cup {Json(b) : b \in PointsBodies}

\* what the forecast request can do
Today ==
    PyDict({<<Name, PyStr(<<"Today">>)>>, <<Temperature, PyInt(75)>>,
            <<TemperatureUnit, PyStr(<<"F">>)>>, <<ShortForecast, PyStr(<<"Sunny">>)>>})
Tonight ==
    PyDict({<<Name, PyStr(<<"Tonight">>)>>, <<Temperature, PyInt(55)>>,
            <<WindSpeed, PyStr(<<"<5 to 10 mph>">>)>>})
ForecastOf(periods) == PyDict({<<Properties, PyDict({<<Periods, PyList(periods)>>})>>})
NotFound == PyDict({<<<<"s", "t", "a", "t", "u", "s">>, PyInt(404)>>})
ForecastBodies ==
    {ForecastOf(<<Today>>), ForecastOf(<<Today, Tonight>>), ForecastOf(<<>>),
     NotFound, PyDict({}), PyNone}
ForecastOutcomes ==
    {GetRaises(PyExc("Exception", MsgForecastApiError)),
     JsonRaises(PyExc("ValueError", MsgInvalidJson))} \cup {Json(b) : b \in ForecastBodies}

\* the user's query
Queries == {<<"<What should I pack for Chicago in 7 days?>">>, <<"<Help me pack>">>}

\* what building the agent or the RAG system can do
MsgApiKey == <<"<The api_key client option must be set>">>
BuildOutcomes == {Value(PyNone), Raise(PyExc("OpenAIError", MsgApiKey))}

\* the exceptions the executor's invoke can raise
InvokeErrors ==
    {PyExc("KeyError", Properties),
     PyExc("KeyError", Forecast),
     PyExc("KeyError", <<"F", "o", "r", "e", "c", "a", "s", "t">>),
     PyExc("KeyError", <<"c", "i", "t", "y">>),
     PyExc("KeyError", Location),
     PyExc("ValueError", <<"I", "n", "v", "a", "l", "i", "d", " ">> \o Location),
     PyExc("ValueError", <<"B", "a", "d", " ", "C", "o", "o", "r", "d", "i", "n", "a", "t", "e", "s">>),
     PyExc("ValueError", <<"N", "o", " ">> \o Date \o <<" ", "f", "o", "r", " ">> \o Location),
     PyExc("TimeoutError", <<"T", "i", "m", "e", "o", "u", "t">>),
     PyExc("OverflowError", MsgDateRange),
     PyExc("Exception", MsgApiError),
     PyExc("ValueError", MsgInvalidJson),
     PyExc("Exception", <<>>),
     PyExc("KeyboardInterrupt", <<>>)}

\* the steps the executor can report
MsgToolError == <<"E", "r", "r", "o", "r", ":", " ", "n", "o", " ", "d", "a", "t", "a">>
StepValues ==
    {Step("get_weather_forecast", ForecastOf(<<Today>>)),
     Step("get_weather_forecast", NotFound),
     Step("get_weather_forecast", PyDict({<<Properties, PyNone>>})),
     Step("get_weather_forecast", PyDict({})),
     Step("get_weather_forecast", PyNone),
     Step("get_weather_forecast", PyStr(<<>>)),
     Step("get_weather_forecast", PyStr(MsgToolError)),
     Step("get_weather_forecast", PyDict({<<Error, PyStr(MsgApiError)>>})),
     Step("calculate_future_date",
          PyStr(<<"2", "0", "2", "5", "-", "1", "0", "-", "1", "6">>)),
     Step("_Exception", PyStr(<<"I", "n", "v", "a", "l", "i", "d", " ", "E", "X", "C", "E",
                                "P", "T", "I", "O", "N">>))}
StepLists == UNION {[1..n -> StepValues] : n \in 0..MaxSteps}

AgentOutput == <<"<Here is what the agent says>">>

\* the dictionaries the executor's invoke can return for a query: "input" always,
\* "output", "intermediate_steps" and "error" each present or not
InvokeResults(q) ==
    {PyDict({<<Input, PyStr(q)>>}
              \cup (IF hasOutput THEN {<<Output, PyStr(AgentOutput)>>} ELSE {})
              \cup (IF hasError THEN {<<Error, PyStr(MsgApiError)>>} ELSE {})
              \cup {<<IntermediateSteps, PyList(steps)>>}) :
        hasOutput \in BOOLEAN, hasError \in BOOLEAN, steps \in StepLists}
      \cup {PyDict({<<Input, PyStr(q)>>}
              \cup (IF hasOutput THEN {<<Output, PyStr(AgentOutput)>>} ELSE {})
              \cup (IF hasError THEN {<<Error, PyStr(MsgApiError)>>} ELSE {})) :
              hasOutput \in BOOLEAN, hasError \in BOOLEAN}
InvokeOutcomes(q) ==
    {Raise(e) : e \in InvokeErrors} \cup {Value(r) : r \in InvokeResults(q)}

\* the names the model can ask for: the three tools, a function of the
\* repository that is no tool, and a name of nothing
ModelNames == tools \cup {"_get_forecast_url", "search_web"}

\* what running a tool can do
ToolOutcomes ==
    {Value(PyStr(<<"<observation>">>)), Raise(PyExc("Exception", MsgApiError))}

\* what the model can answer in one iteration: the final answer, a tool to call
\* and what the call does, an answer that cannot be parsed, or the request fails
Plans ==
    {<<"finish", "", Value(PyStr(AgentOutput))>>,
     <<"parse", "", Value(PyStr(<<"<could not parse>">>))>>,
     <<"raise", "", Raise(PyExc("APIConnectionError", <<"<Connection error.>">>))>>}
      \cup {<<"action", name, did>> : name \in ModelNames, did \in ToolOutcomes}

\* what the RAG chain's invoke can do
LlmOutcomes ==
    {Value(PyStr(<<"<packing list A>">>)), Value(PyStr(<<"<packing list B>">>)),
     Raise(PyExc("APIConnectionError", <<"C", "o", "n", "n", "e", "c", "t", "i", "o", "n",
                                        " ", "e", "r", "r", "o", "r", ".">>)),
     Raise(PyExc("KeyboardInterrupt", <<>>))}

\* the blocks a knowledge file is written from, a blank line between each two:
\* texts, headers in capitals or with a rule of '=', blank and empty blocks, a
\* text that holds a rule, a block that begins and one that ends with a newline
FileBlocks ==
    {<<"a">>,
     <<"b", "1">>,
     <<"1", "2">>,
     <<"A", "B">>,
     <<"A", "1", "=", " ">>,
     <<"=", "=", "=", "=", "\n", "H", "i">>,
     HeaderRule,
     <<"x", "=", "=", "=", "=">>,
     <<" ">>,
     <<>>,
     <<"\n", "c">>,
     <<"d", "\n">>}
Files == UNION {[1..n -> FileBlocks] : n \in 0..MaxBlocks}
MsgNoFile == <<"<No such file or directory>">>

\* what os.getenv("OPENAI_API_KEY") gives: unset, empty, a key, a blank
ApiKeys == {PyNone, PyStr(<<>>), PyStr(<<"<sk-test>">>), PyStr(<<" ">>)}

\* sys.argv[1:]
Argvs ==
    {<<>>,
     << <<"P", "a", "c", "k", "?">> >>,
     << <<"W", "h", "a", "t">>, <<"t", "o">>, <<"p", "a", "c", "k">> >>,
     << <<"a">>, <<>>, <<"q", "u", "i", "t">> >>,
     << <<>> >>}

\* the lines input() can return
InputLines ==
    {<<>>,
     <<" ", "\t">>,
     Quit,
     <<" ", "Q", "U", "I", "T", " ">>,
     <<"E", "x", "i", "t">>,
     Help,
     <<"\t", "H", "e", "L", "p">>,
     <<"q", "u", "i", "t", " ", "n", "o", "w">>,
     <<" ", "P", "a", "c", "k", "?", " ">>,
     <<"h", "e", "l", "p", " ", "m", "e", " ", "p", "a", "c", "k">>}

\* what input() can do: return a line, or raise at Ctrl-C or at the end of the input
InputOutcomes ==
    {Value(PyStr(line)) : line \in InputLines}
      \cup {Raise(PyExc("KeyboardInterrupt", <<>>)),
            Raise(PyExc("EOFError", <<"<EOF when reading a line>">>))}

\* the queries main and interactive_mode can give run_sequential_chain
TypedQueries ==
    {QueryOfArguments(args) : args \in {a \in Argvs : HasArguments(a)}}
      \cup {Strip(line) : line \in {l \in InputLines : IsQuery(Strip(l))}}

\* what run_sequential_chain can do for each of these queries: <<query, outcome>>
ChainOutcomes ==
    UNION {{<<q, run_sequential_chain(q, built, inv, ragBuilt, llm)>> :
               built \in BuildOutcomes, inv \in InvokeOutcomes(q),
               ragBuilt \in BuildOutcomes, llm \in LlmOutcomes} :
           q \in TypedQueries}

\* what run_sequential_chain can do in this pass of the loop: nothing when the
\* line is no query
ChainOutcomesFor(in) ==
    IF ~in.raised /\ IsQuery(Strip(in.val[2]))
    THEN {p[2] : p \in {o \in ChainOutcomes : o[1] = Strip(in.val[2])}}
    ELSE {Value(PyNone)}

-----------------------------------------------------------------------------
(* The state machine: one call of one of the functions, from NoCall on. *)

Init ==
    /\ pc = NoCall
    /\ calls = <<>>
    /\ ret = PyNone
    /\ exc = PyNone
    /\ padYear = FALSE
    /\ now = NoDateTime
    /\ days = PyNone
    /\ latitude = 0
    /\ longitude = 0
    /\ summarize = TRUE
    /\ forecast_url = PyNone
    /\ response = PyNone
    /\ query = <<>>
    /\ invoked = Value(PyNone)
    /\ result = PyNone
    /\ weather_data = PyNone
    /\ forecast_arg = PyNone
    /\ api_key = PyNone
    /\ argv = <<>>
    /\ mode = <<>>
    /\ lines = 0
    /\ typed = Value(PyNone)
    /\ user_input = PyNone
    /\ stdout = <<>>
    /\ chained = <<>>
    /\ content = PyNone
    /\ iterations = 0
    /\ ran = ""

\* the function f ends: it returns the value of `out`, or lets its exception out
Finish(f, out) ==
    /\ pc' = <<f, IF out.raised THEN "raised" ELSE "returned">>
    /\ ret' = IF out.raised THEN PyNone ELSE out.val
    /\ exc' = IF out.raised THEN out.val ELSE PyNone

Returned(f) == pc = <<f, "returned">>
Raised(f) == pc = <<f, "raised">>

(* tools/date_ops.py *)

GetCurrentDate ==
    /\ pc = NoCall
    /\ \E clock \in Clocks, pad \in BOOLEAN :
          /\ now' = clock
          /\ padYear' = pad
          /\ Finish("get_current_date", Value(get_current_date(clock, pad)))
    /\ UNCHANGED <<calls, days, latitude, longitude, summarize, forecast_url,
                   response, query, invoked, result, weather_data,
                   summaryVars, mainVars, knowledgeVars, executorVars>>

CalculateFutureDate ==
    /\ pc = NoCall
    /\ \E clock \in Clocks, arg \in DaysArgs, pad \in BOOLEAN :
          /\ now' = clock
          /\ days' = arg
          /\ padYear' = pad
          /\ Finish("calculate_future_date", calculate_future_date(clock, arg, pad))
    /\ UNCHANGED <<calls, latitude, longitude, summarize, forecast_url,
                   response, query, invoked, result, weather_data,
                   summaryVars, mainVars, knowledgeVars, executorVars>>

(* tools/weather_api.py *)

CallGetWeatherForecast ==
    /\ pc = NoCall
    /\ \E lat \in Latitudes, lon \in Longitudes, s \in BOOLEAN :
          /\ latitude' = lat
          /\ longitude' = lon
          /\ summarize' = s
    /\ pc' = <<"get_weather_forecast", "line 25">>
    /\ UNCHANGED <<calls, ret, exc, padYear, now, days, forecast_url, response,
                   query, invoked, result, weather_data,
                   summaryVars, mainVars, knowledgeVars, executorVars>>

\* line 25: forecast_url = _get_forecast_url(latitude, longitude)
GetForecastUrl ==
    /\ pc = <<"get_weather_forecast", "line 25">>
    /\ \E http \in PointsOutcomes :
          /\ calls' = Append(calls, HttpGet(PointsUrl(latitude, longitude), http))
          /\ IF _get_forecast_url(http).raised
             THEN /\ Finish("get_weather_forecast", _get_forecast_url(http))
                  /\ UNCHANGED forecast_url
             ELSE /\ forecast_url' = _get_forecast_url(http).val
                  /\ pc' = <<"get_weather_forecast", "line 26">>
                  /\ UNCHANGED <<ret, exc>>
    /\ UNCHANGED <<padYear, now, days, latitude, longitude, summarize, response,
                   query, invoked, result, weather_data,
                   summaryVars, mainVars, knowledgeVars, executorVars>>

\* lines 26-31: the forecast request and the return
GetForecast ==
    /\ pc = <<"get_weather_forecast", "line 26">>
    /\ \E http \in ForecastOutcomes :
          /\ calls' = Append(calls, HttpGet(forecast_url[2], http))
          /\ response' = IF http.kind = "json" THEN http.got ELSE PyNone
          /\ Finish("get_weather_forecast", get_weather_forecast(http, summarize))
    /\ UNCHANGED <<padYear, now, days, latitude, longitude, summarize, forecast_url,
                   query, invoked, result, weather_data,
                   summaryVars, mainVars, knowledgeVars, executorVars>>

\* _get_summary(forecast), called by itself
GetSummary ==
    /\ pc = NoCall
    /\ \E body \in ForecastBodies :
          /\ forecast_arg' = body
          /\ Finish("_get_summary", Value(_get_summary(body)))
    /\ UNCHANGED <<calls, padYear, now, days, latitude, longitude, summarize,
                   forecast_url, response, query, invoked, result, weather_data,
                   mainVars, knowledgeVars, executorVars>>

(* core/agent.py *)

\* run_agent(query, agent): lines 92-93 build the executor when none is given
CallRunAgent ==
    /\ pc = NoCall
    /\ \E q \in Queries, given \in BOOLEAN, built \in BuildOutcomes :
          /\ query' = q
          /\ IF given
             THEN /\ built = Value(PyNone)
                  /\ pc' = <<"run_agent", "line 96">>
                  /\ UNCHANGED <<calls, ret, exc>>
             ELSE /\ calls' = Append(calls, Call("create_wardrobe_agent", PyNone, built))
                  /\ IF built.raised
                     THEN Finish("run_agent", built)
                     ELSE /\ pc' = <<"run_agent", "line 96">>
                          /\ UNCHANGED <<ret, exc>>
    /\ UNCHANGED <<padYear, now, days, latitude, longitude, summarize, forecast_url,
                   response, invoked, result, weather_data,
                   summaryVars, mainVars, knowledgeVars, executorVars>>

\* lines 95-147: the invoke and everything after it
RunAgent ==
    /\ pc = <<"run_agent", "line 96">>
    /\ \E inv \in InvokeOutcomes(query) :
          /\ invoked' = inv
          /\ calls' = Append(calls, Call("agent.invoke", PyStr(query), inv))
          /\ result' = IF inv.raised THEN PyNone ELSE MarkErrors(inv.val)
          /\ Finish("run_agent", run_agent(inv))
    /\ UNCHANGED <<padYear, now, days, latitude, longitude, summarize, forecast_url,
                   response, query, weather_data,
                   summaryVars, mainVars, knowledgeVars, executorVars>>

\* agent_executor.invoke({"input": query}) of the executor that lines 64-71 make
CallExecutor ==
    /\ pc = NoCall
    /\ \E q \in Queries : query' = q
    /\ pc' = <<"agent_executor.invoke", "loop">>
    /\ iterations' = 0
    /\ ran' = ""
    /\ UNCHANGED <<calls, ret, exc, padYear, now, days, latitude, longitude, summarize,
                   forecast_url, response, invoked, result, weather_data,
                   summaryVars, mainVars, knowledgeVars>>

\* one iteration: the model is asked; it gives the final answer, or names a
\* tool, which is run, or its answer cannot be parsed
ExecutorIterate ==
    /\ pc = <<"agent_executor.invoke", "loop">>
    /\ ShouldContinue(iterations)
    /\ \E plan \in Plans :
          IF plan[1] = "finish"
          THEN /\ Finish("agent_executor.invoke",
                         Value(ExecutorResult(query, plan[3].val[2])))
               /\ UNCHANGED executorVars
          ELSE IF plan[1] = "raise"
          THEN /\ Finish("agent_executor.invoke", plan[3])
               /\ UNCHANGED executorVars
          ELSE IF plan[1] = "parse"
          THEN /\ iterations' = iterations + 1
               /\ ran' = ParsingError
               /\ UNCHANGED <<pc, ret, exc>>
          ELSE IF ToolRun(plan[2]) # InvalidTool /\ plan[3].raised
          THEN /\ Finish("agent_executor.invoke", plan[3])
               /\ ran' = ToolRun(plan[2])
               /\ UNCHANGED iterations
          ELSE /\ iterations' = iterations + 1
               /\ ran' = ToolRun(plan[2])
               /\ UNCHANGED <<pc, ret, exc>>
    /\ UNCHANGED <<calls, padYear, now, days, latitude, longitude, summarize,
                   forecast_url, response, query, invoked, result, weather_data,
                   summaryVars, mainVars, knowledgeVars>>

\* the limit is reached: the executor returns without asking the model again
ExecutorStop ==
    /\ pc = <<"agent_executor.invoke", "loop">>
    /\ ~ShouldContinue(iterations)
    /\ Finish("agent_executor.invoke", Value(ExecutorResult(query, MsgStopped)))
    /\ UNCHANGED <<calls, padYear, now, days, latitude, longitude, summarize,
                   forecast_url, response, query, invoked, result, weather_data,
                   summaryVars, mainVars, knowledgeVars, executorVars>>

(* main.py *)

\* how a step of run_sequential_chain ends, `at` being the line the RAG stage
\* goes on at
Continue(out, at) ==
    IF out.next = "rag"
    THEN /\ pc' = <<"run_sequential_chain", at>>
         /\ UNCHANGED <<ret, exc>>
    ELSE Finish("run_sequential_chain",
                IF out.next = "raise" THEN Raise(out.val) ELSE Value(out.val))

\* line 75: agent = WardrobeAgent(verbose=verbose), outside the try
CallRunSequentialChain ==
    /\ pc = NoCall
    /\ \E q \in Queries, built \in BuildOutcomes :
          /\ query' = q
          /\ calls' = Append(calls, Call("WardrobeAgent", PyNone, built))
          /\ IF built.raised
             THEN Finish("run_sequential_chain", built)
             ELSE /\ pc' = <<"run_sequential_chain", "line 78">>
                  /\ UNCHANGED <<ret, exc>>
    /\ UNCHANGED <<padYear, now, days, latitude, longitude, summarize, forecast_url,
                   response, invoked, result, weather_data,
                   summaryVars, mainVars, knowledgeVars, executorVars>>

\* lines 78-104: the agent stage, up to the return or to the RAG stage
ChainAgent ==
    /\ pc = <<"run_sequential_chain", "line 78">>
    /\ \E inv \in InvokeOutcomes(query) :
          /\ invoked' = inv
          /\ calls' = Append(calls, Call("agent.invoke", PyStr(query), inv))
          /\ result' = IF inv.raised THEN PyNone ELSE inv.val
          /\ weather_data' = IF inv.raised \/ HasKey(inv.val, Error) THEN PyNone
                             ELSE WeatherDataOf(StepsOf(inv.val))
          /\ Continue(AgentStage(inv), "line 97")
    /\ UNCHANGED <<padYear, now, days, latitude, longitude, summarize, forecast_url,
                   response, query,
                   summaryVars, mainVars, knowledgeVars, executorVars>>

\* line 97: rag = WardrobeRAG()
ChainRagInit ==
    /\ pc = <<"run_sequential_chain", "line 97">>
    /\ \E built \in BuildOutcomes :
          /\ calls' = Append(calls, Call("WardrobeRAG", PyNone, built))
          /\ Continue(RagConstructed(built), "line 99")
    /\ UNCHANGED <<padYear, now, days, latitude, longitude, summarize, forecast_url,
                   response, query, invoked, result, weather_data,
                   summaryVars, mainVars, knowledgeVars, executorVars>>

\* lines 99-101: recommendations = rag.get_recommendations(query, weather_data)
ChainRag ==
    /\ pc = <<"run_sequential_chain", "line 99">>
    /\ \E llm \in LlmOutcomes :
          LET out == get_recommendations(PyStr(query), weather_data, llm)
              formatted == _format_weather_info(weather_data)
          IN  /\ calls' = calls
                    \o <<Call("get_recommendations", <<PyStr(query), weather_data>>, out)>>
                    \o (IF formatted.raised THEN <<>>
                        ELSE <<Call("chain.invoke",
                                    InputData(PyStr(query), formatted.val), llm)>>)
              /\ Continue(RagStage(out), "line 99")
    /\ UNCHANGED <<padYear, now, days, latitude, longitude, summarize, forecast_url,
                   response, query, invoked, result, weather_data,
                   summaryVars, mainVars, knowledgeVars, executorVars>>

(* core/rag.py *)

\* load_wardrobe_knowledge(file_path): the file is there and holds the blocks,
\* or it is not there
LoadWardrobeKnowledge ==
    /\ pc = NoCall
    /\ \/ \E blocks \in Files :
             /\ content' = PyStr(Join(BlankLine, blocks))
             /\ Finish("load_wardrobe_knowledge",
                       load_wardrobe_knowledge(Value(PyStr(Join(BlankLine, blocks)))))
       \/ /\ Finish("load_wardrobe_knowledge",
                     load_wardrobe_knowledge(Raise(PyExc("FileNotFoundError", MsgNoFile))))
          /\ UNCHANGED content
    /\ UNCHANGED <<calls, padYear, now, days, latitude, longitude, summarize,
                   forecast_url, response, query, invoked, result, weather_data,
                   summaryVars, mainVars, executorVars>>

(* main.py: main *)

\* how a step of main ends
MainStep(step) ==
    /\ stdout' = step.printed
    /\ chained' = step.queries
    /\ IF step.next = "loop"
       THEN /\ pc' = <<"interactive_mode", "line 118">>
            /\ UNCHANGED <<ret, exc>>
       ELSE Finish("main", IF step.next = "raise" THEN Raise(step.exc) ELSE Value(PyNone))

\* main(), up to the exit, to the end of single_query_mode or to the loop of
\* interactive_mode
Main ==
    /\ pc = NoCall
    /\ \E key \in ApiKeys, args \in Argvs :
          /\ api_key' = key
          /\ argv' = args
          /\ IF KeyMissing(key)
             THEN /\ MainStep(ExitWithoutKey)
                  /\ UNCHANGED <<mode, query>>
             ELSE IF HasArguments(args)
             THEN /\ mode' = Append(mode, "single_query_mode")
                  /\ query' = QueryOfArguments(args)
                  /\ \E p \in ChainOutcomes :
                        /\ p[1] = QueryOfArguments(args)
                        /\ MainStep(single_query_mode(QueryOfArguments(args), p[2]))
             ELSE /\ mode' = Append(mode, "interactive_mode")
                  /\ MainStep(EnterInteractive)
                  /\ UNCHANGED query
    /\ UNCHANGED <<calls, padYear, now, days, latitude, longitude, summarize,
                   forecast_url, response, invoked, result, weather_data,
                   summaryVars, lines, typed, user_input,
                   knowledgeVars, executorVars>>

\* one pass of the loop of interactive_mode
InteractivePass ==
    /\ pc = <<"interactive_mode", "line 118">>
    /\ lines < MaxLines
    /\ \E in \in InputOutcomes :
          /\ typed' = in
          /\ lines' = lines + 1
          /\ user_input' = IF in.raised THEN user_input ELSE PyStr(Strip(in.val[2]))
          /\ \E chain \in ChainOutcomesFor(in) : MainStep(interactive_pass(in, chain))
    /\ UNCHANGED <<calls, padYear, now, days, latitude, longitude, summarize,
                   forecast_url, response, query, invoked, result, weather_data,
                   summaryVars, api_key, argv, mode, knowledgeVars, executorVars>>

Next ==
    \/ GetCurrentDate
    \/ CalculateFutureDate
    \/ CallGetWeatherForecast
    \/ GetForecastUrl
    \/ GetForecast
    \/ GetSummary
    \/ CallRunAgent
    \/ RunAgent
    \/ CallRunSequentialChain
    \/ ChainAgent
    \/ ChainRagInit
    \/ ChainRag
    \/ Main
    \/ InteractivePass
    \/ LoadWardrobeKnowledge
    \/ CallExecutor
    \/ ExecutorIterate
    \/ ExecutorStop

Spec == Init /\ [][Next]_vars

\* the executor's loop is one thread of straight-line code: while a step of it
\* can be taken, it is taken, every request to the model and every call of a
\* tool coming back with a value or an exception
LiveSpec == Spec /\ WF_vars(ExecutorIterate) /\ WF_vars(ExecutorStop)

-----------------------------------------------------------------------------
(* What the properties below are stated with. *)

\* the chain's external calls by name
RagOps == {"WardrobeRAG", "get_recommendations", "chain.invoke"}
IsForecastStep(step) == step.action.tool = "get_weather_forecast"

\* the calendar, counted by hand
LeapYear(y) == (y % 4 = 0 /\ y % 100 # 0) \/ y % 400 = 0
MonthLength(y, m) ==
    CASE m \in {4, 6, 9, 11} -> 30
      [] m = 2 -> (IF LeapYear(y) THEN 29 ELSE 28)
      [] OTHER -> 31
FirstOfNextMonth(d) ==
    IF d.month < 12 THEN [year |-> d.year, month |-> d.month + 1, day |-> 1]
    ELSE [year |-> d.year + 1, month |-> 1, day |-> 1]
LastOfPreviousMonth(d) ==
    IF d.month > 1
    THEN [year |-> d.year, month |-> d.month - 1,
          day |-> MonthLength(d.year, d.month - 1)]
    ELSE [year |-> d.year - 1, month |-> 12, day |-> 31]
\* the date n days after d (before d, for n < 0), counted through the months: the
\* days left in the month of d, then month after month; 400 years are 146097 days
RECURSIVE DaysLater(_, _)
DaysLater(d, n) ==
    IF n >= 146097
    THEN DaysLater([year |-> d.year + 400, month |-> d.month, day |-> d.day],
                   n - 146097)
    ELSE IF n <= -146097
    THEN DaysLater([year |-> d.year - 400, month |-> d.month, day |-> d.day],
                   n + 146097)
    ELSE IF n >= 0
    THEN IF d.day + n <= MonthLength(d.year, d.month)
         THEN [year |-> d.year, month |-> d.month, day |-> d.day + n]
         ELSE DaysLater(FirstOfNextMonth(d),
                        n - (MonthLength(d.year, d.month) - d.day + 1))
    ELSE IF d.day + n >= 1
         THEN [year |-> d.year, month |-> d.month, day |-> d.day + n]
         ELSE DaysLater(LastOfPreviousMonth(d), n + d.day)
DateOf(dt) == [year |-> dt.year, month |-> dt.month, day |-> dt.day]

IsDigit(c) == \E d \in 0..9 : Digit[d + 1] = c
DigitValue(c) == CHOOSE d \in 0..9 : Digit[d + 1] = c
RECURSIVE Number(_)
Number(s) ==
    IF s = <<>> THEN 0
    ELSE 10 * Number(SubSeq(s, 1, Len(s) - 1)) + DigitValue(s[Len(s)])

-----------------------------------------------------------------------------
(* run_sequential_chain: the two stages. *)

\* the result the agent stage returned in this call of run_sequential_chain
InChain == pc[1] = "run_sequential_chain"
AgentReturned ==
    /\ InChain
    /\ Len(calls) >= 2
    /\ calls[2].op = "agent.invoke"
    /\ ~calls[2].did.raised
AgentResult == calls[2].did.val

\* C1: the RAG stage (WardrobeRAG() and get_recommendations) runs only after the
\* agent stage has returned, and only when the returned intermediate steps hold a
\* get_weather_forecast step with a non-empty observation; get_recommendations
\* gets the query of the call and the observation of such a step, and what it
\* returns is what run_sequential_chain returns.
C1_RagAfterWeather ==
    InChain =>
      \A i \in 1..Len(calls) :
          calls[i].op \in {"WardrobeRAG", "get_recommendations"} =>
            /\ i > 2
            /\ AgentReturned
            /\ \E k \in 1..Len(StepsOf(AgentResult)) :
                  /\ IsForecastStep(StepsOf(AgentResult)[k])
                  /\ Truthy(StepsOf(AgentResult)[k].observation)
                  /\ calls[i].op = "get_recommendations" =>
                        calls[i].arg = <<PyStr(query),
                                         StepsOf(AgentResult)[k].observation>>
            /\ (calls[i].op = "get_recommendations" /\ ~calls[i].did.raised) =>
                  /\ Returned("run_sequential_chain")
                  /\ ret = calls[i].did.val

\* C1 happens: the second step is the forecast, the RAG has answered and its
\* answer is returned
C1_Witness ==
    /\ Returned("run_sequential_chain")
    /\ Len(calls) = 5
    /\ calls[4].op = "get_recommendations"
    /\ calls[4].arg = <<PyStr(query), ForecastOf(<<Today>>)>>
    /\ ~IsForecastStep(StepsOf(AgentResult)[1])
    /\ ret = PyStr(<<"<packing list B>">>)

\* the first get_weather_forecast step of the steps, if there is one, has an
\* empty observation
NoUsableObservation(steps) ==
    \A k \in 1..Len(steps) :
        (IsForecastStep(steps[k]) /\ Truthy(steps[k].observation)) =>
            \E j \in 1..(k - 1) : IsForecastStep(steps[j])

\* C2: when the agent's result has no "error" and no usable get_weather_forecast
\* observation, run_sequential_chain returns the result's "output" (the fixed
\* text when there is none) and the RAG stage is neither built nor called.
C2_AgentOutputWithoutRag ==
    (AgentReturned /\ ~HasKey(AgentResult, Error)
        /\ NoUsableObservation(StepsOf(AgentResult))) =>
      /\ Returned("run_sequential_chain")
      /\ ret = (IF HasKey(AgentResult, Output) THEN Get(AgentResult, Output)
                ELSE PyStr(CouldNotProcess))
      /\ \A i \in 1..Len(calls) : calls[i].op \notin RagOps

\* C2 happens: a forecast step with an empty observation, no "output", the fixed
\* text returned
C2_Witness ==
    /\ AgentReturned
    /\ ~HasKey(AgentResult, Error)
    /\ ~HasKey(AgentResult, Output)
    /\ \E k \in 1..Len(StepsOf(AgentResult)) : IsForecastStep(StepsOf(AgentResult)[k])
    /\ NoUsableObservation(StepsOf(AgentResult))
    /\ Returned("run_sequential_chain")
    /\ ret = PyStr(CouldNotProcess)

-----------------------------------------------------------------------------
(* get_weather_forecast: the two requests. *)

InForecast == pc[1] = "get_weather_forecast"

\* the points response is a JSON object without "properties", or one whose
\* "properties" is an object without "forecast"
LacksForecast(data) ==
    /\ data[1] = "dict"
    /\ \/ Properties \notin Keys(data)
       \/ /\ Get(data, Properties)[1] = "dict"
          /\ Forecast \notin Keys(Get(data, Properties))

\* C3: a call that returns has made exactly two GET requests: the first to
\* NWS_BASE_URL + "/points/<latitude>,<longitude>", the second to the URL at
\* properties.forecast of the first response.
C3_TwoRequestsInOrder ==
    Returned("get_weather_forecast") =>
      /\ Len(calls) = 2
      /\ \A i \in 1..2 : calls[i].op = "requests.get"
      /\ calls[1].url = NWS_BASE_URL \o <<"/", "p", "o", "i", "n", "t", "s", "/">>
                          \o FormatFloat(latitude) \o <<",">> \o FormatFloat(longitude)
      /\ calls[1].did.kind = "json"
      /\ calls[2].url = Get(Get(calls[1].did.got, Properties), Forecast)[2]

\* C3 happens: 39.7,-97.0 is asked for and the forecast is fetched from the
\* URL the points response names
C3_Witness ==
    /\ Returned("get_weather_forecast")
    /\ latitude = 397
    /\ longitude = -970
    /\ calls[1].url = NWS_BASE_URL
                        \o <<"/", "p", "o", "i", "n", "t", "s", "/", "3", "9", ".", "7",
                             ",", "-", "9", "7", ".", "0">>
    /\ calls[2].url = UrlLox

C5_FailuresPropagate ==
    InForecast =>
      /\ (Len(calls) >= 1 /\ calls[1].did.kind = "get raises") =>
            /\ Raised("get_weather_forecast")
            /\ exc = calls[1].did.got
            /\ Len(calls) = 1
            /\ ret = PyNone
      /\ (Len(calls) >= 2 /\ calls[2].did.kind \in {"get raises", "json raises"}) =>
            /\ Raised("get_weather_forecast")
            /\ exc = calls[2].did.got
            /\ ret = PyNone

\* C5 happens: the forecast response is no JSON and the ValueError is out
C5_Witness ==
    /\ Raised("get_weather_forecast")
    /\ Len(calls) = 2
    /\ calls[2].did = JsonRaises(PyExc("ValueError", MsgInvalidJson))
    /\ exc = PyExc("ValueError", MsgInvalidJson)

\* C6: on a points response without "properties", or whose "properties" has no
\* "forecast", _get_forecast_url raises KeyError, so get_weather_forecast raises
\* KeyError after exactly one request.
C6_KeyErrorOnMalformedPoints ==
    (InForecast /\ Len(calls) >= 1 /\ calls[1].did.kind = "json"
        /\ LacksForecast(calls[1].did.got)) =>
      /\ _get_forecast_url(calls[1].did).raised
      /\ ExcClass(_get_forecast_url(calls[1].did).val) = "KeyError"
      /\ Raised("get_weather_forecast")
      /\ ExcClass(exc) = "KeyError"
      /\ Len(calls) = 1

\* C6 happens: "properties" is there, "forecast" is not
C6_Witness ==
    /\ Raised("get_weather_forecast")
    /\ Len(calls) = 1
    /\ calls[1].did.kind = "json"
    /\ HasKey(calls[1].did.got, Properties)
    /\ LacksForecast(calls[1].did.got)
    /\ exc = PyExc("KeyError", Forecast)

-----------------------------------------------------------------------------
(* date_ops: the dates. *)

InFutureDate == pc[1] = "calculate_future_date"

\* the date |days| days after or before the date of the clock
DateAfter(clock, n) == DaysLater(DateOf(clock), n)

\* C7 as stated: for every clock reading and every integer days the call returns
\* the date |days| days after or before the clock's date.
C7_EveryIntegerDays ==
    InFutureDate =>
      /\ Returned("calculate_future_date")
      /\ ret = PyStr(Strftime(DateAfter(now, BoundDays(days)), padYear))

\* C7, amended: the call returns the date |days| days after or before the clock's
\* date, whatever the time of day, when days is at most 999999999 either way and
\* that date lies in 0001-01-01..9999-12-31; otherwise it raises OverflowError.
C7_DaysWithinCalendar ==
    InFutureDate =>
      IF /\ BoundDays(days) <= 999999999
         /\ BoundDays(days) >= -999999999
         /\ DateAfter(now, BoundDays(days)).year >= 1
         /\ DateAfter(now, BoundDays(days)).year <= 9999
      THEN /\ Returned("calculate_future_date")
           /\ ret = PyStr(Strftime(DateAfter(now, BoundDays(days)), padYear))
      ELSE /\ Raised("calculate_future_date")
           /\ ExcClass(exc) = "OverflowError"

\* C7 happens: 2025-12-31 at 23:59:59 minus 365 days is 2024-12-31
C7_Witness ==
    /\ Returned("calculate_future_date")
    /\ now = DateTime(2025, 12, 31, 23, 59, 59)
    /\ days = PyInt(-365)
    /\ ret = PyStr(<<"2", "0", "2", "4", "-", "1", "2", "-", "3", "1">>)

\* C8: with days=0 and with days omitted calculate_future_date returns what
\* get_current_date returns on the same clock reading.
C8_ZeroDaysIsToday ==
    (InFutureDate /\ (days[1] = "none" \/ (days[1] = "int" /\ days[2] = 0))) =>
      /\ Returned("calculate_future_date")
      /\ ret = get_current_date(now, padYear)

\* C8 happens: days is omitted at 2025-10-09 12:30:45
C8_Witness ==
    /\ Returned("calculate_future_date")
    /\ days[1] = "none"
    /\ now = DateTime(2025, 10, 9, 12, 30, 45)
    /\ ret = PyStr(<<"2", "0", "2", "5", "-", "1", "0", "-", "0", "9">>)

\* a text of the form YYYY-MM-DD that names a date of the calendar
IsIsoDate(s) ==
    /\ Len(s) = 10
    /\ s[5] = "-"
    /\ s[8] = "-"
    /\ \A i \in {1, 2, 3, 4, 6, 7, 9, 10} : IsDigit(s[i])
    /\ Number(SubSeq(s, 1, 4)) >= 1
    /\ Number(SubSeq(s, 6, 7)) \in 1..12
    /\ Number(SubSeq(s, 9, 10)) >= 1
    /\ Number(SubSeq(s, 9, 10))
          <= MonthLength(Number(SubSeq(s, 1, 4)), Number(SubSeq(s, 6, 7)))

\* C9: what get_current_date and calculate_future_date return is always a str of
\* ten characters YYYY-MM-DD, the year in four digits, month and day in two,
\* hyphens at index 4 and 7, naming a date of the calendar.
C9_TenCharacterDate ==
    (Returned("get_current_date") \/ Returned("calculate_future_date")) =>
      /\ ret[1] = "str"
      /\ IsIsoDate(ret[2])

-----------------------------------------------------------------------------
(* run_agent: the except clauses. *)

\* the exception the executor's invoke raised in this call of run_agent
InvokeRaised ==
    /\ pc[1] = "run_agent"
    /\ Len(calls) >= 1
    /\ calls[Len(calls)].op = "agent.invoke"
    /\ calls[Len(calls)].did.raised
InvokeError == calls[Len(calls)].did.val

ErrorTypes == {"weather_api", "clarification", "location", "date", "general"}

\* C10: an Exception raised by the executor's invoke never leaves run_agent: the
\* call returns a dict with exactly the keys "output", "error", "error_type" and
\* "intermediate_steps", "error" being str(e), "intermediate_steps" the empty
\* list and "error_type" one of the five types.
C10_InvokeErrorsReturned ==
    (InvokeRaised /\ ExcClass(InvokeError) # "KeyboardInterrupt") =>
      /\ Returned("run_agent")
      /\ ret[1] = "dict"
      /\ Keys(ret) = {Output, Error, ErrorType, IntermediateSteps}
      /\ Get(ret, Error) = PyStr(StrOfExc(InvokeError))
      /\ Get(ret, IntermediateSteps) = PyList(<<>>)
      /\ Get(ret, ErrorType) \in {PyStr(<<type>>) : type \in ErrorTypes}

\* C10 happens: KeyError('properties') comes back as a weather_api error
C10_Witness ==
    /\ InvokeRaised
    /\ InvokeError = PyExc("KeyError", Properties)
    /\ Returned("run_agent")
    /\ Get(ret, Error) = PyStr(<<"'">> \o Properties \o <<"'">>)
    /\ Get(ret, ErrorType) = PyStr(<<"weather_api">>)

-----------------------------------------------------------------------------
(* run_sequential_chain: the except clause and the order of the tests. *)

\* the text the except clause of line 106 returns for the exception e
ErrorText(e) == PyStr(AnErrorOccurred \o StrOfExc(e) \o PleaseRephrase)

\* the agent object has been constructed: line 75 returned
AgentConstructed ==
    /\ InChain
    /\ Len(calls) >= 1
    /\ calls[1].op = "WardrobeAgent"
    /\ ~calls[1].did.raised

\* C13: once the agent object is constructed, an Exception raised by the agent
\* call, by reading the result, by WardrobeRAG() or by get_recommendations never
\* leaves run_sequential_chain: the call returns "An error occurred: <str(e)>"
\* followed by the rephrasing advice, also after weather data was retrieved.
C13_ExceptionsBecomeText ==
    AgentConstructed =>
      /\ Raised("run_sequential_chain") => ~IsException(exc)
      /\ \A i \in 2..Len(calls) :
            (calls[i].op \in {"agent.invoke", "WardrobeRAG", "get_recommendations"}
               /\ calls[i].did.raised /\ IsException(calls[i].did.val)) =>
              /\ Returned("run_sequential_chain")
              /\ ret = ErrorText(calls[i].did.val)
      /\ (AgentReturned /\ HasKey(AgentResult, Error) /\ ~HasKey(AgentResult, Output)) =>
              /\ Returned("run_sequential_chain")
              /\ ret = ErrorText(PyExc("KeyError", Output))

\* C13 happens: the forecast was retrieved, WardrobeRAG() was built, and the
\* chain's invoke raised a connection error, which comes back as text
C13_Witness ==
    /\ AgentConstructed
    /\ Len(calls) = 5
    /\ Truthy(weather_data)
    /\ calls[3].op = "WardrobeRAG"
    /\ calls[4].op = "get_recommendations"
    /\ calls[4].did.raised
    /\ ExcClass(calls[4].did.val) = "APIConnectionError"
    /\ Returned("run_sequential_chain")
    /\ ret = ErrorText(calls[4].did.val)

\* the index of the first get_weather_forecast step of the agent's result
HasForecastStep(steps) == \E k \in 1..Len(steps) : IsForecastStep(steps[k])
FirstForecastStep(steps) ==
    CHOOSE k \in 1..Len(steps) :
        IsForecastStep(steps[k]) /\ \A j \in 1..(k - 1) : ~IsForecastStep(steps[j])

\* C14: the chain uses the observation of the first get_weather_forecast step
\* and no later one: if that observation is empty the call returns the agent's
\* own output and no RAG stage runs, whatever a later forecast step holds; if
\* it is not empty, it is what get_recommendations gets.
C14_FirstForecastStepOnly ==
    (AgentReturned /\ ~HasKey(AgentResult, Error)
       /\ HasForecastStep(StepsOf(AgentResult))) =>
      LET first == StepsOf(AgentResult)[FirstForecastStep(StepsOf(AgentResult))]
      IN  /\ weather_data = first.observation
          /\ ~Truthy(first.observation) =>
                /\ Returned("run_sequential_chain")
                /\ ret = GetOr(AgentResult, Output, PyStr(CouldNotProcess))
                /\ \A i \in 1..Len(calls) : calls[i].op \notin RagOps
          /\ \A i \in 1..Len(calls) :
                calls[i].op = "get_recommendations" =>
                  calls[i].arg[2] = first.observation

\* C14 happens: the first forecast step observed None, the second a forecast,
\* and the agent's output came back with no RAG stage
C14_Witness ==
    /\ AgentReturned
    /\ ~HasKey(AgentResult, Error)
    /\ StepsOf(AgentResult) = <<Step("get_weather_forecast", PyNone),
                                Step("get_weather_forecast", ForecastOf(<<Today>>))>>
    /\ Returned("run_sequential_chain")
    /\ ret = PyStr(AgentOutput)
    /\ Len(calls) = 2

\* C15: when the agent's result holds the key "error" the chain returns the
\* result's "output" and runs no RAG stage, the steps not being looked at, even
\* when they hold a forecast observation.
C15_ErrorKeyReturnsOutput ==
    (AgentReturned /\ HasKey(AgentResult, Error)) =>
      /\ Len(calls) = 2
      /\ weather_data = PyNone
      /\ pc[2] \in {"returned", "raised"}
      /\ HasKey(AgentResult, Output) =>
            /\ Returned("run_sequential_chain")
            /\ ret = Get(AgentResult, Output)

\* C15 happens: "error" next to a step with a forecast, and the output is returned
C15_Witness ==
    /\ AgentReturned
    /\ HasKey(AgentResult, Error)
    /\ StepsOf(AgentResult) = <<Step("get_weather_forecast", ForecastOf(<<Today>>))>>
    /\ Returned("run_sequential_chain")
    /\ ret = PyStr(AgentOutput)

-----------------------------------------------------------------------------
(* run_agent: the classification of a failure and the has_errors flag. *)

\* the error_type the priority of the claim gives the exception e
TypeByPriority(e) ==
    LET text == StrOfExc(e)
        lowered == Lower(text)
    IN  IF ExcClass(e) = "KeyError"
        THEN IF Contains(text, Properties) \/ Contains(text, Forecast)
             THEN "weather_api" ELSE "clarification"
        ELSE IF Contains(lowered, Location) \/ Contains(lowered, Coordinates)
        THEN "location"
        ELSE IF Contains(lowered, Date) \/ Contains(lowered, Time)
        THEN "date"
        ELSE "general"

\* C16: run_agent classifies a failure by a fixed priority: a KeyError is
\* weather_api when its text holds "properties" or "forecast" and clarification
\* otherwise; any other Exception is location when its lowered message holds
\* "location" or "coordinates", else date when it holds "date" or "time", else
\* general; the returned dictionary holds that one error_type.
C16_ClassifiedByPriority ==
    (InvokeRaised /\ IsException(InvokeError)) =>
      /\ Returned("run_agent")
      /\ Get(ret, ErrorType) = PyStr(<<TypeByPriority(InvokeError)>>)
      /\ Cardinality({p \in ret[2] : p[1] = ErrorType}) = 1

\* C16 happens: "No date for location" passes both tests and is a location error
C16_Witness ==
    /\ InvokeRaised
    /\ InvokeError = PyExc("ValueError",
                           <<"N", "o", " ">> \o Date \o <<" ", "f", "o", "r", " ">> \o Location)
    /\ Returned("run_agent")
    /\ Get(ret, ErrorType) = PyStr(<<"location">>)
    /\ Get(ret, Output) = PyStr(WEATHER_ERROR_PROMPT)

\* the executor's invoke returned in this call of run_agent
InvokeReturned ==
    /\ pc[1] = "run_agent"
    /\ Len(calls) >= 1
    /\ calls[Len(calls)].op = "agent.invoke"
    /\ ~calls[Len(calls)].did.raised
InvokeResult == calls[Len(calls)].did.val

\* an observation that is a str holding "error" or "exception" in any case
ShowsError(observation) ==
    /\ observation[1] = "str"
    /\ \E word \in {Error, Exception} : Contains(Lower(observation[2]), word)

\* C17: after a successful invoke run_agent returns the executor's result, every
\* key of it unchanged, with has_errors=True added exactly when some observation
\* of the intermediate steps is a str holding "error" or "exception" in any
\* letter case; an observation that is no str never sets the flag and the flag
\* is never False.
C17_ResultWithErrorFlag ==
    InvokeReturned =>
      /\ Returned("run_agent")
      /\ ret[1] = "dict"
      /\ \A key \in Keys(InvokeResult) : Get(ret, key) = Get(InvokeResult, key)
      /\ Keys(ret) \in {Keys(InvokeResult), Keys(InvokeResult) \cup {HasErrors}}
      /\ HasKey(ret, HasErrors) <=>
            \E i \in 1..Len(StepsOf(InvokeResult)) :
                ShowsError(StepsOf(InvokeResult)[i].observation)
      /\ HasKey(ret, HasErrors) => Get(ret, HasErrors) = PyBool(TRUE)

\* C17 happens: a dict observation with an "error" key sets no flag, the str
\* "Invalid EXCEPTION" of the next step does
C17_Witness ==
    /\ InvokeReturned
    /\ Returned("run_agent")
    /\ Len(StepsOf(InvokeResult)) = 2
    /\ StepsOf(InvokeResult)[1].observation = PyDict({<<Error, PyStr(MsgApiError)>>})
    /\ StepsOf(InvokeResult)[2].action.tool = "_Exception"
    /\ HasKey(InvokeResult, Output)
    /\ HasKey(ret, HasErrors)
    /\ Get(ret, HasErrors) = PyBool(TRUE)
    /\ Get(ret, IntermediateSteps) = Get(InvokeResult, IntermediateSteps)
    /\ Get(ret, Output) = PyStr(AgentOutput)

-----------------------------------------------------------------------------
(* _get_summary by itself. *)

-----------------------------------------------------------------------------
(* main and interactive_mode. *)

InMain == pc[1] \in {"main", "interactive_mode"}

\* the arguments with one space between each two of them, counted from the end
RECURSIVE SpaceSeparated(_)
SpaceSeparated(args) ==
    IF Len(args) = 0 THEN <<>>
    ELSE IF Len(args) = 1 THEN args[1]
    ELSE SpaceSeparated(SubSeq(args, 1, Len(args) - 1)) \o <<" ">> \o args[Len(args)]

\* OPENAI_API_KEY is set and not empty
KeyIsSet == api_key[1] = "str" /\ Len(api_key[2]) > 0

\* C11: main gives run_sequential_chain no query unless OPENAI_API_KEY is set and
\* not empty: without it main exits with status 1 before entering a mode; with
\* it main enters exactly one mode, single_query_mode with the arguments joined
\* by single spaces when there is an argument, interactive_mode when there is
\* none.
C11_KeyThenOneMode ==
    InMain =>
      /\ ~KeyIsSet =>
            /\ Raised("main")
            /\ exc = PyExc("SystemExit", <<"1">>)
            /\ mode = <<>>
            /\ chained = <<>>
            /\ lines = 0
      /\ (KeyIsSet /\ Len(argv) > 0) =>
            /\ mode = <<"single_query_mode">>
            /\ chained = <<PyStr(SpaceSeparated(argv))>>
            /\ lines = 0
            /\ pc[1] = "main"
      /\ (KeyIsSet /\ Len(argv) = 0) =>
            /\ mode = <<"interactive_mode">>
            /\ lines = 0 => chained = <<>>

\* C11 happens: the key is set, three arguments make one query, and the answer
\* is printed
C11_Witness ==
    /\ Returned("main")
    /\ KeyIsSet
    /\ Len(argv) = 3
    /\ mode = <<"single_query_mode">>
    /\ chained = <<PyStr(<<"W", "h", "a", "t", " ", "t", "o", " ", "p", "a", "c", "k">>)>>
    /\ Len(stdout) = 4

\* the loop of interactive_mode has read a line in its latest pass
LineRead ==
    /\ InMain
    /\ mode = <<"interactive_mode">>
    /\ lines >= 1
    /\ ~typed.raised
Stripped == Strip(typed.val[2])
Looping == pc = <<"interactive_mode", "line 118">>

\* C12: in interactive mode a line, stripped of the whitespace around it, is
\* handled as exactly one of four cases: an empty line does nothing; "quit" or
\* "exit" in any letter case ends the loop; "help" in any letter case prints the
\* help text; any other line is given to run_sequential_chain exactly once, as
\* stripped. The first three cases never call run_sequential_chain.
C12_OneCasePerLine ==
    LineRead =>
      CASE Stripped = <<>> ->
             /\ chained = <<>>
             /\ stdout = <<Separator, Prompt>>
             /\ Looping
        [] Stripped # <<>> /\ Lower(Stripped) \in {Quit, Exit} ->
             /\ chained = <<>>
             /\ stdout = <<Separator, Prompt, Goodbye>>
             /\ Returned("main")
        [] Lower(Stripped) = Help ->
             /\ chained = <<>>
             /\ stdout = <<Separator, Prompt, HelpText>>
             /\ Looping
        [] OTHER ->
             /\ chained = <<PyStr(Stripped)>>
             /\ stdout[3] = TempusVestisLabel
             /\ \A i \in 1..Len(stdout) : stdout[i] \notin {HelpText, Goodbye}

\* C12 happens: " QUIT " ends the loop without a call of run_sequential_chain
C12_Witness ==
    /\ LineRead
    /\ typed = Value(PyStr(<<" ", "Q", "U", "I", "T", " ">>))
    /\ user_input = PyStr(<<"Q", "U", "I", "T">>)
    /\ chained = <<>>
    /\ Returned("main")

-----------------------------------------------------------------------------
(* load_wardrobe_knowledge: the documents of a file. *)

\* the file was read in this call of load_wardrobe_knowledge
FileRead == pc[1] = "load_wardrobe_knowledge" /\ content[1] = "str"

\* the blocks of the file, the blank lines between them taken away
Blocks == Split(content[2], BlankLine)
HeadersOf(blocks) ==
    {i \in 1..Len(blocks) : Strip(blocks[i]) # <<>> /\ IsHeader(blocks[i])}
TextsOf(blocks) ==
    {i \in 1..Len(blocks) : Strip(blocks[i]) # <<>> /\ ~IsHeader(blocks[i])}

\* the nearest of the headers before block i, 0 when there is none
HeaderBefore(headers, i) ==
    IF \E h \in headers : h < i
    THEN CHOOSE h \in headers : h < i /\ \A g \in headers : g < i => g <= h
    ELSE 0

\* the members of a set of numbers, smallest first
InOrder(S) ==
    [k \in 1..Cardinality(S) |-> CHOOSE i \in S : Cardinality({j \in S : j < i}) = k - 1]

\* C18: load_wardrobe_knowledge splits the file on blank lines; no document has
\* empty content; every block that is neither blank nor a header is in exactly
\* one document, in the order of the file; the "section" of a document is the
\* nearest header before it, '=' removed and trimmed, or '' when no header is
\* before it; a header followed at once by a header or by the end of the file
\* gives no document.
C18_DocumentsOfFile ==
    FileRead =>
      LET blocks == Blocks
          headers == HeadersOf(blocks)
          texts == InOrder(TextsOf(blocks))
          \* for each text the nearest header before it
          under == [k \in 1..Len(texts) |-> HeaderBefore(headers, texts[k])]
          \* the headers that have a text before the next header, 0 standing for
          \* the texts before every header
          withText == InOrder({under[k] : k \in 1..Len(texts)})
          documents == ret[2]
      IN  /\ Returned("load_wardrobe_knowledge")
          /\ ret[1] = "list"
          /\ Len(documents) = Len(withText)
          /\ \A d \in 1..Len(documents) :
                LET mine == InOrder({k \in 1..Len(texts) : under[k] = withText[d]})
                IN  /\ documents[d].page_content # <<>>
                    /\ documents[d].page_content
                          = Join(BlankLine, [n \in 1..Len(mine) |-> blocks[texts[mine[n]]]])
                    /\ documents[d].metadata.section
                          = IF withText[d] = 0 THEN <<>>
                            ELSE Strip(RemoveChar(blocks[withText[d]], "="))
          /\ Join(BlankLine, [d \in 1..Len(documents) |-> documents[d].page_content])
                = Join(BlankLine, [k \in 1..Len(texts) |-> blocks[texts[k]]])

\* C18 happens: a header with a rule and nothing under it, a header in capitals
\* and a text under it make one document
C18_Witness ==
    /\ FileRead
    /\ Blocks = << <<"=", "=", "=", "=", "\n", "H", "i">>, <<"A", "B">>, <<"b", "1">> >>
    /\ Returned("load_wardrobe_knowledge")
    /\ ret = PyList(<<Document(<<"b", "1">>, <<"A", "B">>)>>)

InExecutor == pc[1] = "agent_executor.invoke"
ExecutorEnded == Returned("agent_executor.invoke") \/ Raised("agent_executor.invoke")

====
